---- MODULE Spec2Model ----
(***************************************************************************)
(* health-guard-mcp (src/server.py): the event journal, the preference     *)
(* set, the temporal utilities and the nudge decision engine, with the     *)
(* JSON persistence layer (primary / fallback / working directory) they    *)
(* read and write.                                                         *)
(*                                                                         *)
(* Time.  An instant is a number of seconds; a datetime is a record        *)
(* [t |-> instant, off |-> UTC offset in seconds] (an aware datetime).     *)
(* Sub-second parts are not modelled.  A time of day (datetime.time with   *)
(* second 0) is its minute of the day, hour * 60 + minute.                 *)
(*                                                                         *)
(* Optional values (Optional[datetime], a candidate that may be absent)    *)
(* are sequences of length 0 or 1: << >> is None, << v >> is v.            *)
(***************************************************************************)
EXTENDS Integers, Sequences, FiniteSets, TLC

VARIABLES
    clock,      \* the wall clock: the instant every _now() of a call returns
    files,      \* files[dir][name]: the document stored there, or NoFile
    recorded,   \* history: the entries _add_entry has returned, in order
    faulted,    \* history: how many calls met a storage fault
    result,     \* what the last call returned (or that it raised)
    saves       \* the _save_json calls in flight on one document, step by step

vars == <<clock, files, recorded, faulted, result, saves>>

----------------------------------------------------------------------------
(* Time arithmetic of datetime / timedelta.                                *)

\* timedelta(minutes=1), timedelta(hours=1), timedelta(days=1) in seconds
Minute == 60
Hour == 60 * Minute
Day == 24 * Hour

None == << >>
Some(v) == << v >>
IsNone(o) == Len(o) = 0

\* The machine's local zone (datetime.now().astimezone()), as a UTC offset.
LocalOffset == 0

\* zoneinfo.ZoneInfo(name): the zones known to the machine and their offsets.
NoTz == "<None>"
ZoneNames == {"Asia/Tokyo"}
ZoneOffsetOf(name) == 9 * Hour

Wall(dt) == dt.t + dt.off
DateOf(dt) == Wall(dt) \div Day
TimeOfDay(dt) == (Wall(dt) % Day) \div Minute
\* dt.replace(hour=h, minute=m, second=0, microsecond=0), tod = h * 60 + m
ReplaceTime(dt, tod) == [t |-> DateOf(dt) * Day + tod * Minute - dt.off, off |-> dt.off]
\* dt + timedelta(seconds=s)
AddSeconds(dt, s) == [t |-> dt.t + s, off |-> dt.off]

\* _now(tz_name): the named zone when it resolves, else the local zone.
_now(tz_name) ==
    IF tz_name # NoTz /\ tz_name \in ZoneNames
    THEN [t |-> clock, off |-> ZoneOffsetOf(tz_name)]
    ELSE [t |-> clock, off |-> LocalOffset]

\* datetime.isoformat(): the wall-clock fields followed by the offset.
_iso(dt) == [tag |-> "iso", wall |-> Wall(dt), aware |-> TRUE, off |-> dt.off]

\* _parse(text): an ISO text with an offset keeps it, one without is taken
\* in the local zone, anything else is the current instant in the local zone.
_parse(text) ==
    IF text.tag = "iso"
    THEN IF text.aware
         THEN [t |-> text.wall - text.off, off |-> text.off]
         ELSE [t |-> text.wall - LocalOffset, off |-> LocalOffset]
    ELSE _now(NoTz)

\* A text is [tag |-> "empty"] (None or ""), [tag |-> "plain"] (words that hold
\* no time), [tag |-> "rel", num, unit] (a phrase such as "2 hours ago") or
\* [tag |-> "iso", wall, aware, off].
EmptyText == [tag |-> "empty"]
PlainText == [tag |-> "plain"]
RelText(n, u) == [tag |-> "rel", num |-> n, unit |-> u]
IsoText(w, o) == [tag |-> "iso", wall |-> w, aware |-> TRUE, off |-> o]
NaiveIsoText(w) == [tag |-> "iso", wall |-> w, aware |-> FALSE, off |-> 0]

\* _parse_relative(text, base): number and unit, the unit read by its first
\* letter (h, m, d).
_parse_relative(text, base) ==
    IF text.tag = "rel"
    THEN CASE text.unit = "h" -> Some(AddSeconds(base, - text.num * Hour))
           [] text.unit = "m" -> Some(AddSeconds(base, - text.num * Minute))
           [] text.unit = "d" -> Some(AddSeconds(base, - text.num * Day))
    ELSE None

_parse_when_for_input(text, prefs) ==
    IF text.tag = "empty" THEN None
    ELSE LET rel == _parse_relative(text, _now(prefs.timezone))
         IN  IF ~IsNone(rel) THEN rel ELSE Some(_parse(text))

_infer_when_from_note(note, prefs) ==
    IF note.tag = "empty" THEN None
    ELSE _parse_relative(note, _now(prefs.timezone))

----------------------------------------------------------------------------
(* Preferences.                                                            *)

\* An "HH:MM" string is the pair << h, m >> of the numbers it holds; a pair
\* out of range stands for every string time(int(h), int(m)) rejects.
HHMM(h, m) == << h, m >>

PrefFields ==
    {"timezone", "move_interval_min", "meal_interval_hours", "ideal_sleep_start",
     "quiet_hours_start", "quiet_hours_end", "sleep_escalate_after_ideal",
     "sleep_escalate_ignore_quiet_hours", "sleep_escalate_max_hours"}

\* Preferences(): the dataclass defaults.
DefaultPreferences ==
    [timezone |-> NoTz,
     move_interval_min |-> 60,
     meal_interval_hours |-> 5,
     ideal_sleep_start |-> HHMM(22, 30),
     quiet_hours_start |-> HHMM(22, 0),
     quiet_hours_end |-> HHMM(7, 0),
     sleep_escalate_after_ideal |-> TRUE,
     sleep_escalate_ignore_quiet_hours |-> TRUE,
     sleep_escalate_max_hours |-> 3]

\* setattr(prefs, k, v) for every key of d that is an attribute of prefs.
SetAttrs(prefs, d) ==
    [k \in PrefFields |-> IF k \in DOMAIN d THEN d[k] ELSE prefs[k]]

\* _hhmm_to_time(hhmm): the time of day, or 22:00 when the string is malformed.
_hhmm_to_time(hhmm) ==
    IF hhmm[1] \in 0..23 /\ hhmm[2] \in 0..59
    THEN hhmm[1] * 60 + hhmm[2]
    ELSE 22 * 60

\* _in_quiet_hours with the end of the window left out (t < end).
InQuietHoursEndExcluded(now, prefs) ==
    LET start == _hhmm_to_time(prefs.quiet_hours_start)
        end == _hhmm_to_time(prefs.quiet_hours_end)
        t == TimeOfDay(now)
    IN  IF start <= end
        THEN start <= t /\ t < end
        ELSE t >= start \/ t < end

\* _in_quiet_hours(now, prefs)
_in_quiet_hours(now, prefs) ==
    LET start == _hhmm_to_time(prefs.quiet_hours_start)
        end == _hhmm_to_time(prefs.quiet_hours_end)
        t == TimeOfDay(now)
    IN  IF start <= end
        THEN start <= t /\ t <= end
        ELSE t >= start \/ t <= end

\* _today_bounds(now)
_today_bounds(now) ==
    LET start == ReplaceTime(now, 0)
    IN  << start, AddSeconds(start, Day) >>

----------------------------------------------------------------------------
(* Persistence: _primary_or_fallback, _load_json, _save_json.              *)

DataDir == "data"          \* DATA_DIR
FallbackDir == "fallback"  \* FALLBACK_DIR
CwdDir == "cwd"            \* Path(".")
Dirs == {DataDir, FallbackDir, CwdDir}
JournalName == "journal.json"
ConfigName == "config.json"
FileNames == {JournalName, ConfigName}

EmptyDict == [k \in {} |-> TRUE]   \* {}

\* A stored document is << >> (no file) or << d >>, d the JSON value.
NoFile == << >>
Exists(fs, dir, name) == Len(fs[dir][name]) > 0

_primary_or_fallback(fs, name) ==
    IF Exists(fs, DataDir, name) THEN DataDir
    ELSE IF Exists(fs, FallbackDir, name) THEN FallbackDir
    ELSE DataDir

\* _load_json(path, default); readFails: read_text / json.loads raises.
_load_json(fs, name, default, readFails) ==
    LET p == _primary_or_fallback(fs, name)
    IN  IF ~Exists(fs, p, name) THEN default
        ELSE IF readFails THEN default
        ELSE fs[p][name][1]

\* _save_json(path, data): the first directory of data, fallback, cwd that
\* takes the write holds the document (written to a .tmp and moved over the
\* file); when none does the last write's exception leaves the function.
_save_json(fs, w, name, data) ==
    IF w[DataDir] THEN [raised |-> FALSE, fs |-> [fs EXCEPT ![DataDir][name] = << data >>]]
    ELSE IF w[FallbackDir] THEN [raised |-> FALSE, fs |-> [fs EXCEPT ![FallbackDir][name] = << data >>]]
    ELSE IF w[CwdDir] THEN [raised |-> FALSE, fs |-> [fs EXCEPT ![CwdDir][name] = << data >>]]
    ELSE [raised |-> TRUE, fs |-> fs]

\* Preferences.load()
PreferencesLoad(fs, readFails) ==
    SetAttrs(DefaultPreferences, _load_json(fs, ConfigName, EmptyDict, readFails))

\* Preferences.save()
PreferencesSave(fs, w, prefs) == _save_json(fs, w, ConfigName, prefs)

_load_journal(fs, readFails) == _load_json(fs, JournalName, << >>, readFails)

_save_journal(fs, w, entries) == _save_json(fs, w, JournalName, entries)

\* _add_entry(kind, note, prefs, when): the entry, and the files after the save.
_add_entry(fs, w, readFails, kind, note, prefs, when) ==
    LET now == _now(prefs.timezone)
        ts == IF IsNone(when) THEN now ELSE _parse(when[1])
        entry == [ts |-> _iso(ts), kind |-> kind, note |-> note]
        entries == Append(_load_journal(fs, readFails), entry)
        saved == _save_journal(fs, w, entries)
    IN  [raised |-> saved.raised, fs |-> saved.fs, entry |-> entry]

----------------------------------------------------------------------------
(* Event journal queries.                                                  *)

Kinds == {"move", "meal", "sleep_start", "sleep_end"}

\* _last_of(kind, now): the entries are walked from the last one back and the
\* first of the kind that is not after now ends the walk.
RECURSIVE LastOfFrom(_, _, _, _)
LastOfFrom(entries, i, kind, now) ==
    IF i = 0 THEN None
    ELSE IF entries[i].kind = kind /\ _parse(entries[i].ts).t <= now.t
         THEN Some(_parse(entries[i].ts))
         ELSE LastOfFrom(entries, i - 1, kind, now)

_last_of(entries, kind, now) == LastOfFrom(entries, Len(entries), kind, now)

\* _count_today(kinds, now)
_count_today(entries, kinds, now) ==
    LET b == _today_bounds(now)
    IN  Cardinality({i \in 1..Len(entries) :
            /\ entries[i].kind \in kinds
            /\ b[1].t <= _parse(entries[i].ts).t
            /\ _parse(entries[i].ts).t < b[2].t})

_meals_pred(day_entries) == \E i \in 1..Len(day_entries) : day_entries[i].kind = "meal"

_move_pred(day_entries) == \E i \in 1..Len(day_entries) : day_entries[i].kind = "move"

_sleep_pred(day_entries) ==
    \E i \in 1..Len(day_entries) : day_entries[i].kind \in {"sleep_start", "sleep_end"}

Predicates == {"move", "meal", "sleep"}
ApplyPredicate(predicate, day_entries) ==
    CASE predicate = "move" -> _move_pred(day_entries)
      [] predicate = "meal" -> _meals_pred(day_entries)
      [] predicate = "sleep" -> _sleep_pred(day_entries)

\* by_day[d]: the entries whose own date (in their own offset) is d.
ByDay(entries, d) ==
    LET OnDay(e) == DateOf(_parse(e.ts)) = d
    IN  SelectSeq(entries, OnDay)

\* The loop of _days_streak with the predicate asked of the whole journal
\* instead of the day's entries.
RECURSIVE StreakLoopWholeJournal(_, _, _, _)
StreakLoopWholeJournal(entries, predicate, d, streak) ==
    IF ByDay(entries, d) = << >> \/ ~ApplyPredicate(predicate, entries)
    THEN streak
    ELSE StreakLoopWholeJournal(entries, predicate, d - 1, streak + 1)

\* The while loop of _days_streak.
RECURSIVE StreakLoop(_, _, _, _)
StreakLoop(entries, predicate, d, streak) ==
    IF ByDay(entries, d) = << >> \/ ~ApplyPredicate(predicate, ByDay(entries, d))
    THEN streak
    ELSE StreakLoop(entries, predicate, d - 1, streak + 1)

\* _days_streak(predicate): today is the date in the machine's local zone.
_days_streak(entries, predicate) ==
    StreakLoop(entries, predicate, DateOf(_now(NoTz)), 0)

----------------------------------------------------------------------------
(* The decision engine.                                                    *)

OrElse(opt, v) == IF IsNone(opt) THEN v ELSE opt[1]

\* _next_due(now, prefs)
_next_due(entries, now, prefs) ==
    LET last_move == _last_of(entries, "move", now)
        last_meal == _last_of(entries, "meal", now)
        ideal == _hhmm_to_time(prefs.ideal_sleep_start)
        ideal_dt == ReplaceTime(now, ideal)
    IN  [move_due_at |-> _iso(AddSeconds(OrElse(last_move, now), prefs.move_interval_min * Minute)),
         meal_due_at |-> _iso(AddSeconds(OrElse(last_meal, now), prefs.meal_interval_hours * Hour)),
         sleep_ideal_at |-> _iso(IF ideal_dt.t < now.t THEN AddSeconds(ideal_dt, Day) ELSE ideal_dt)]

\* int(delta.total_seconds() // 60)
MinutesBetween(later, earlier) == (later.t - earlier.t) \div Minute

\* The base weight of a sleep candidate.
SleepWeight == 10000

\* sleep_nudge with the firm tier ending before minute 90 (< for <=).
SleepNudgeFirmBelow90(now, prefs, quiet) ==
    LET ideal_dt == ReplaceTime(now, _hhmm_to_time(prefs.ideal_sleep_start))
        window_start == AddSeconds(ideal_dt, - 45 * Minute)
        window_end == AddSeconds(ideal_dt, 30 * Minute)
        minutes_over == MinutesBetween(now, ideal_dt)
    IN  IF window_start.t <= now.t /\ now.t <= window_end.t
        THEN Some([kind |-> "sleep", why |-> "near_ideal_sleep_time", severity |-> "gentle"])
        ELSE IF now.t > ideal_dt.t /\ prefs.sleep_escalate_after_ideal
                /\ (~quiet \/ prefs.sleep_escalate_ignore_quiet_hours)
        THEN Some([kind |-> "sleep", why |-> "past_ideal_sleep_time",
                   minutes_over |-> minutes_over,
                   severity |-> IF minutes_over <= 30 THEN "gentle"
                                ELSE IF minutes_over < 90 THEN "firm"
                                ELSE "strong"])
        ELSE None

\* sleep_nudge with minutes_over counted from the end of the window instead
\* of the ideal time.
SleepNudgeFromWindowEnd(now, prefs, quiet) ==
    LET ideal_dt == ReplaceTime(now, _hhmm_to_time(prefs.ideal_sleep_start))
        window_start == AddSeconds(ideal_dt, - 45 * Minute)
        window_end == AddSeconds(ideal_dt, 30 * Minute)
        minutes_over == MinutesBetween(now, window_end)
    IN  IF window_start.t <= now.t /\ now.t <= window_end.t
        THEN Some([kind |-> "sleep", why |-> "near_ideal_sleep_time", severity |-> "gentle"])
        ELSE IF now.t > ideal_dt.t /\ prefs.sleep_escalate_after_ideal
                /\ (~quiet \/ prefs.sleep_escalate_ignore_quiet_hours)
        THEN Some([kind |-> "sleep", why |-> "past_ideal_sleep_time",
                   minutes_over |-> minutes_over,
                   severity |-> IF minutes_over <= 30 THEN "gentle"
                                ELSE IF minutes_over <= 90 THEN "firm"
                                ELSE "strong"])
        ELSE None

\* The sleep_nudge of _nudge: None, the near-ideal nudge, or the escalation.
\* (hours_over, which sleep_escalate_max_hours caps, is computed and not used.)
SleepNudge(now, prefs, quiet) ==
    LET ideal_dt == ReplaceTime(now, _hhmm_to_time(prefs.ideal_sleep_start))
        window_start == AddSeconds(ideal_dt, - 45 * Minute)
        window_end == AddSeconds(ideal_dt, 30 * Minute)
        minutes_over == MinutesBetween(now, ideal_dt)
    IN  IF window_start.t <= now.t /\ now.t <= window_end.t
        THEN Some([kind |-> "sleep", why |-> "near_ideal_sleep_time", severity |-> "gentle"])
        ELSE IF now.t > ideal_dt.t /\ prefs.sleep_escalate_after_ideal
                /\ (~quiet \/ prefs.sleep_escalate_ignore_quiet_hours)
        THEN Some([kind |-> "sleep", why |-> "past_ideal_sleep_time",
                   minutes_over |-> minutes_over,
                   severity |-> IF minutes_over <= 30 THEN "gentle"
                                ELSE IF minutes_over <= 90 THEN "firm"
                                ELSE "strong"])
        ELSE None

\* The movement (category "move") or meal candidates: none when quiet.
CategoryCandidates(last, now, interval_min, kind, why_overdue, why_never) ==
    IF ~IsNone(last)
    THEN LET overdue_min == MinutesBetween(now, last[1]) - interval_min
         IN  IF overdue_min >= 0
             THEN << << overdue_min, [kind |-> kind, why |-> why_overdue] >> >>
             ELSE << >>
    ELSE << << 0, [kind |-> kind, why |-> why_never] >> >>

\* The weight of the sleep candidate.
SleepCandidate(sleep_nudge) ==
    << IF sleep_nudge.why = "past_ideal_sleep_time"
       THEN SleepWeight + sleep_nudge.minutes_over
       ELSE SleepWeight,
       sleep_nudge >>

\* The candidates list without the quiet-hours guard on movement and meal.
CandidatesIgnoringQuiet(entries, now, prefs) ==
    LET quiet == _in_quiet_hours(now, prefs)
        last_move == _last_of(entries, "move", now)
        last_meal == _last_of(entries, "meal", now)
        sleep_nudge == SleepNudge(now, prefs, quiet)
    IN  CategoryCandidates(last_move, now, prefs.move_interval_min,
                           "move", "no_recent_movement", "no_movement_logged")
        \o CategoryCandidates(last_meal, now, prefs.meal_interval_hours * 60,
                              "meal", "long_since_last_meal", "no_meal_logged")
        \o (IF ~IsNone(sleep_nudge) /\ (~quiet \/ prefs.sleep_escalate_ignore_quiet_hours)
            THEN << SleepCandidate(sleep_nudge[1]) >>
            ELSE << >>)

\* The candidates list of _nudge, in the order it is appended to.
Candidates(entries, now, prefs) ==
    LET quiet == _in_quiet_hours(now, prefs)
        last_move == _last_of(entries, "move", now)
        last_meal == _last_of(entries, "meal", now)
        sleep_nudge == SleepNudge(now, prefs, quiet)
    IN  (IF ~quiet
         THEN CategoryCandidates(last_move, now, prefs.move_interval_min,
                                 "move", "no_recent_movement", "no_movement_logged")
              \o CategoryCandidates(last_meal, now, prefs.meal_interval_hours * 60,
                                    "meal", "long_since_last_meal", "no_meal_logged")
         ELSE << >>)
        \o (IF ~IsNone(sleep_nudge) /\ (~quiet \/ prefs.sleep_escalate_ignore_quiet_hours)
            THEN << SleepCandidate(sleep_nudge[1]) >>
            ELSE << >>)

\* A sort that is not stable: a candidate goes before those of equal score.
RECURSIVE InsertBeforeEqual(_, _)
InsertBeforeEqual(sorted, c) ==
    IF sorted = << >> THEN << c >>
    ELSE IF Head(sorted)[1] > c[1]
         THEN << Head(sorted) >> \o InsertBeforeEqual(Tail(sorted), c)
         ELSE << c >> \o sorted

\* list.sort(key=score, reverse=True): stable, equal scores keep their order.
RECURSIVE InsertByScore(_, _)
InsertByScore(sorted, c) ==
    IF sorted = << >> THEN << c >>
    ELSE IF Head(sorted)[1] >= c[1]
         THEN << Head(sorted) >> \o InsertByScore(Tail(sorted), c)
         ELSE << c >> \o sorted

RECURSIVE SortByScoreDesc(_)
SortByScoreDesc(cs) ==
    IF cs = << >> THEN << >>
    ELSE InsertByScore(SortByScoreDesc(SubSeq(cs, 1, Len(cs) - 1)), cs[Len(cs)])

NoNudge == [kind |-> "none", why |-> "no_nudge_needed_or_quiet_hours"]

\* _nudge(now, prefs); the message texts, fixed by kind, why and severity,
\* are left out.
_nudge(entries, now, prefs) ==
    LET candidates == Candidates(entries, now, prefs)
    IN  IF candidates = << >> THEN NoNudge
        ELSE SortByScoreDesc(candidates)[1][2]

\* _status_bundle(now, prefs)
_status_bundle(entries, now, prefs) ==
    [now |-> _iso(now),
     counts_today |-> [move |-> _count_today(entries, {"move"}, now),
                       meal |-> _count_today(entries, {"meal"}, now),
                       sleep_events |-> _count_today(entries, {"sleep_start", "sleep_end"}, now)],
     streaks |-> [move_days |-> _days_streak(entries, "move"),
                  meal_days |-> _days_streak(entries, "meal"),
                  sleep_days |-> _days_streak(entries, "sleep")],
     due |-> _next_due(entries, now, prefs),
     nudge |-> _nudge(entries, now, prefs),
     prefs |-> prefs]

----------------------------------------------------------------------------
(* _save_json step by step, for calls that overlap on one document.  Every *)
(* call uses the same temporary name (path.suffix + ".tmp"), so the        *)
(* temporary path and the final path are names for files that the calls    *)
(* share; a file is known by the saver that created it (0: no file).       *)

NumSavers == 3   \* overlapping calls of _save_json on the same path
Savers == 1..NumSavers

\* json.dumps(data) of saver p: p + 1 characters, all its own.
Doc(p) == [i \in 1..(p + 1) |-> p]

\* No call in flight: no temporary file, no final document.
NoSaves ==
    [pc |-> [p \in Savers |-> "start"],
     handle |-> [p \in Savers |-> 0],
     content |-> [f \in Savers |-> << >>],
     tmp |-> 0,
     final |-> 0,
     fallback |-> << >>]

\* write(data) at offset 0 of a file holding old: data, then what old held
\* beyond it.
Overwrite(old, data) ==
    IF Len(old) <= Len(data) THEN data
    ELSE data \o SubSeq(old, Len(data) + 1, Len(old))

\* tmp.write_text: open(tmp, "w") creates the file or truncates the one that
\* is there.
SaveOpen(p) ==
    /\ saves.pc[p] = "start"
    /\ LET f == IF saves.tmp = 0 THEN p ELSE saves.tmp
       IN  saves' = [saves EXCEPT !.pc[p] = "opened", !.handle[p] = f,
                                  !.content[f] = << >>, !.tmp = f]
    /\ UNCHANGED <<clock, files, recorded, faulted, result>>

\* tmp.write_text: the text is written (in one piece) and the file closed.
SaveWrite(p) ==
    /\ saves.pc[p] = "opened"
    /\ LET f == saves.handle[p]
       IN  saves' = [saves EXCEPT !.pc[p] = "written", !.handle[p] = 0,
                                  !.content[f] = Overwrite(saves.content[f], Doc(p))]
    /\ UNCHANGED <<clock, files, recorded, faulted, result>>

\* tmp.replace(path): the temporary file becomes the document; when another
\* call has already moved it away the rename raises and the except branch
\* goes on to the fallback directory.
SaveReplace(p) ==
    /\ saves.pc[p] = "written"
    /\ saves' = IF saves.tmp # 0
                THEN [saves EXCEPT !.pc[p] = "done", !.final = saves.tmp, !.tmp = 0]
                ELSE [saves EXCEPT !.pc[p] = "fallback"]
    /\ UNCHANGED <<clock, files, recorded, faulted, result>>

\* The second try block: the document is saved under FALLBACK_DIR.
SaveFallback(p) ==
    /\ saves.pc[p] = "fallback"
    /\ saves' = [saves EXCEPT !.pc[p] = "done", !.fallback = << Doc(p) >>]
    /\ UNCHANGED <<clock, files, recorded, faulted, result>>

NextSave ==
    \E p \in Savers : SaveOpen(p) \/ SaveWrite(p) \/ SaveReplace(p) \/ SaveFallback(p)

----------------------------------------------------------------------------
(* The two operations: health_preflight and update_preferences.            *)

\* PreferencesUpdate.model_dump(exclude_none=True): the known fields of the
\* payload that hold a value.  A payload maps field names (known or not) to
\* None or Some(value); pydantic drops the names the model does not declare.
ModelDump(upd) ==
    [k \in {f \in DOMAIN upd \cap PrefFields : ~IsNone(upd[f])} |-> upd[k][1]]

\* The ask[] list of health_preflight, each question by its field and intent.
Asks(entries, now, prefs) ==
    LET quiet == _in_quiet_hours(now, prefs)
        last_move == _last_of(entries, "move", now)
        last_meal == _last_of(entries, "meal", now)
        ideal_dt == ReplaceTime(now, _hhmm_to_time(prefs.ideal_sleep_start))
        last_sleep_start == _last_of(entries, "sleep_start", now)
        missing_today_sleep_start ==
            IsNone(last_sleep_start) \/ last_sleep_start[1].t < ideal_dt.t
        can_nudge_sleep == ~quiet \/ prefs.sleep_escalate_ignore_quiet_hours
    IN  (IF ~quiet /\ (IsNone(last_move)
                       \/ now.t - last_move[1].t >= prefs.move_interval_min * Minute)
         THEN << [field |-> "move", intent |-> "move_check"] >> ELSE << >>)
        \o (IF ~quiet /\ (IsNone(last_meal)
                          \/ now.t - last_meal[1].t >= prefs.meal_interval_hours * Hour)
            THEN << [field |-> "meal", intent |-> "meal_check"] >> ELSE << >>)
        \o (IF can_nudge_sleep /\ missing_today_sleep_start
            THEN IF ideal_dt.t - 45 * Minute <= now.t /\ now.t <= ideal_dt.t + 30 * Minute
                 THEN << [field |-> "sleep", intent |-> "sleep_start_check_near_ideal"] >>
                 ELSE IF now.t > ideal_dt.t /\ prefs.sleep_escalate_after_ideal
                 THEN << [field |-> "sleep", intent |-> "sleep_start_check_after_ideal"] >>
                 ELSE << >>
            ELSE << >>)

\* A report block that records an entry whether or not the payload asks.
ReportStepUnasked(acc, w, readFails, rep, kind, prefs) ==
    IF acc.raised THEN acc
    ELSE LET a == _add_entry(acc.fs, w, readFails, kind, EmptyText, prefs, None)
         IN  [raised |-> a.raised, fs |-> a.fs,
              recorded |-> IF a.raised \/ IsNone(rep) THEN acc.recorded
                           ELSE Append(acc.recorded, a.entry)]

\* One "if payload.report_x:" block of health_preflight.  acc is what the call
\* has done so far: whether it raised, the files, the entries it recorded.
ReportStep(acc, w, readFails, rep, kind, prefs) ==
    IF acc.raised \/ IsNone(rep) THEN acc
    ELSE LET when_dt == IF rep[1].when.tag # "empty"
                        THEN _parse_when_for_input(rep[1].when, prefs)
                        ELSE _infer_when_from_note(rep[1].note, prefs)
             when_str == IF IsNone(when_dt) THEN None ELSE Some(_iso(when_dt[1]))
             a == _add_entry(acc.fs, w, readFails, kind, rep[1].note, prefs, when_str)
         IN  [raised |-> a.raised, fs |-> a.fs,
              recorded |-> IF a.raised THEN acc.recorded ELSE Append(acc.recorded, a.entry)]

\* The merge both operations start with: load, setattr the changed fields,
\* save when something changed.
MergePrefs(fs, w, readFails, upd) ==
    LET loaded == PreferencesLoad(fs, readFails)
        changed == IF IsNone(upd) THEN EmptyDict ELSE ModelDump(upd[1])
        prefs == SetAttrs(loaded, changed)
        saved == IF DOMAIN changed # {}
                 THEN PreferencesSave(fs, w, prefs)
                 ELSE [raised |-> FALSE, fs |-> fs]
    IN  [raised |-> saved.raised, fs |-> saved.fs, prefs |-> prefs, changed |-> changed]

\* health_preflight(payload), to its return or to the exception that ends it.
HealthPreflightRun(fs, w, unreadable, payload) ==
    LET rfJ == JournalName \in unreadable
        m == MergePrefs(fs, w, ConfigName \in unreadable, payload.set_prefs)
        r0 == [raised |-> m.raised, fs |-> m.fs, recorded |-> << >>]
        r1 == ReportStep(r0, w, rfJ, payload.move, "move", m.prefs)
        r2 == ReportStep(r1, w, rfJ, payload.meal, "meal", m.prefs)
        r3 == ReportStep(r2, w, rfJ, payload.sleep,
                         IF ~IsNone(payload.sleep) /\ payload.sleep[1].which = "start"
                         THEN "sleep_start" ELSE "sleep_end", m.prefs)
        now == _now(m.prefs.timezone)
        entries == _load_journal(r3.fs, rfJ)
    IN  [fs |-> r3.fs,
         recorded |-> r3.recorded,
         response |->
            IF r3.raised THEN [op |-> "preflight", raised |-> TRUE]
            ELSE [op |-> "preflight", raised |-> FALSE,
                  changed_prefs |-> m.changed,
                  recorded |-> r3.recorded,
                  status |-> _status_bundle(entries, now, m.prefs),
                  ask |-> Asks(entries, now, m.prefs)]]

\* update_preferences(payload)
UpdatePreferencesRun(fs, w, unreadable, upd) ==
    LET m == MergePrefs(fs, w, ConfigName \in unreadable, Some(upd))
    IN  [fs |-> m.fs,
         response |->
            IF m.raised THEN [op |-> "update_preferences", raised |-> TRUE]
            ELSE [op |-> "update_preferences", raised |-> FALSE,
                  changed_prefs |-> m.changed, prefs |-> m.prefs]]

----------------------------------------------------------------------------
(* The system: calls arrive one at a time (section 5: synchronous, one     *)
(* request per call) and the clock advances between them.  Each call meets *)
(* the storage in one condition: which directories take a write (w) and    *)
(* which documents cannot be read (unreadable).                            *)

MaxReports == 2   \* entries recorded in one behaviour
MaxFaults == 1    \* calls that meet a storage fault in one behaviour

\* The instant of h:m (local time) on day number day.
At(day, h, m) == day * Day + h * Hour + m * Minute - LocalOffset
StartDay == 4 * 5

\* The instants at which calls are made.
ClockValues == {At(StartDay, 9, 0), At(StartDay, 20, 40), At(StartDay + 1, 9, 0)}

\* _save_json tries data, fallback, cwd in turn, so what it does is fixed by
\* the first directory that takes the write: four conditions cover it.
AllWritable == [d \in Dirs |-> TRUE]
Unwritable(ds) == [d \in Dirs |-> d \notin ds]

\* The storage conditions a call may meet: none, one read failing, or the
\* writes failing down to some directory.
NoFault == [w |-> AllWritable, unreadable |-> {}]

Faults ==
    {NoFault,
     [w |-> AllWritable, unreadable |-> {JournalName}],
     [w |-> AllWritable, unreadable |-> {ConfigName}],
     [w |-> Unwritable({DataDir}), unreadable |-> {}],
     [w |-> Unwritable({DataDir, FallbackDir}), unreadable |-> {}],
     [w |-> Unwritable(Dirs), unreadable |-> {}]}

\* What a report may carry: nothing (the entry is stamped now), or a relative
\* phrase in the when field (a backdated entry).
ReportInputs ==
    {[when |-> EmptyText, note |-> EmptyText],
     [when |-> RelText(2, "h"), note |-> EmptyText]}

NoPayload == [set_prefs |-> None, move |-> None, meal |-> None, sleep |-> None]

\* The partial updates tried: one field, a field with an undeclared one, a
\* field given as null, and the payload with no field.
PrefUpdates ==
    {[f \in {"move_interval_min"} |-> Some(45)],
     [f \in {"ideal_sleep_start", "nickname"} |-> Some(HHMM(20, 0))],
     [f \in {"timezone"} |-> None],
     EmptyDict}

Payloads ==
    {NoPayload}
    \cup {[NoPayload EXCEPT !.set_prefs = Some(u)] : u \in PrefUpdates}
    \cup {[NoPayload EXCEPT !.move = Some(r)] : r \in ReportInputs}
    \cup {[NoPayload EXCEPT !.sleep = Some([which |-> "start", when |-> EmptyText, note |-> EmptyText])]}
    \cup {[set_prefs |-> Some([f \in {"move_interval_min"} |-> Some(45)]),
           move |-> Some([when |-> EmptyText, note |-> EmptyText]),
           meal |-> Some([when |-> EmptyText, note |-> EmptyText]),
           sleep |-> None]}

NumReports(payload) ==
    Len(payload.move) + Len(payload.meal) + Len(payload.sleep)

Init ==
    /\ clock = At(StartDay, 9, 0)
    /\ files = [d \in Dirs |-> [n \in FileNames |-> NoFile]]
    /\ recorded = << >>
    /\ faulted = 0
    /\ result = [op |-> "init", raised |-> FALSE]
    /\ saves = NoSaves

MeetFault(fault) ==
    /\ fault # NoFault => faulted < MaxFaults
    /\ faulted' = IF fault # NoFault THEN faulted + 1 ELSE faulted

\* A call of preflight_always_health_guard.
HealthPreflight ==
    \E payload \in Payloads, fault \in Faults :
        /\ Len(recorded) + NumReports(payload) <= MaxReports
        /\ MeetFault(fault)
        /\ LET run == HealthPreflightRun(files, fault.w, fault.unreadable, payload)
           IN  /\ files' = run.fs
               /\ recorded' = recorded \o run.recorded
               /\ result' = run.response
        /\ UNCHANGED <<clock, saves>>

\* A call of health_guard_update_preferences.
UpdatePreferences ==
    \E upd \in PrefUpdates, fault \in Faults :
        /\ MeetFault(fault)
        /\ LET run == UpdatePreferencesRun(files, fault.w, fault.unreadable, upd)
           IN  /\ files' = run.fs
               /\ result' = run.response
        /\ UNCHANGED <<clock, recorded, saves>>

\* Time passes between two calls.
Tick ==
    /\ \E c \in ClockValues : c > clock /\ clock' = c
    /\ UNCHANGED <<files, recorded, faulted, result, saves>>

Next == HealthPreflight \/ UpdatePreferences \/ Tick

Spec == Init /\ [][Next]_vars

----------------------------------------------------------------------------
(* The engine's functions on their own.  The stored journal and            *)
(* preferences are drawn from bounded sets of documents the two operations *)
(* can have written (any timestamps: reports may be backdated or dated     *)
(* ahead; any preference values: updates are not validated), and each      *)
(* action applies one function to them at the current instant and keeps    *)
(* what it returned.                                                       *)

LoadedPrefs == PreferencesLoad(files, FALSE)
LoadedJournal == _load_journal(files, FALSE)
Now == _now(LoadedPrefs.timezone)

\* The files after the preferences prefs and the entries journal were saved
\* to the primary location (no journal file before the first report).
StoreOf(prefs, journal) ==
    [d \in Dirs |->
        IF d = DataDir
        THEN [n \in FileNames |->
                IF n = ConfigName THEN << prefs >>
                ELSE IF journal = << >> THEN NoFile ELSE << journal >>]
        ELSE [n \in FileNames |-> NoFile]]

\* The entry a report of kind made age seconds before instant t left, stamped
\* in the zone of offset off.
EntryAt(kind, t, age, off) ==
    [ts |-> _iso([t |-> t - age, off |-> off]), kind |-> kind, note |-> EmptyText]

\* The sequences over S of length at most n.
SeqsUpTo(S, n) == UNION {[1..k -> S] : k \in 0..n}

OffsetOfPrefs(prefs) ==
    IF prefs.timezone \in ZoneNames THEN ZoneOffsetOf(prefs.timezone) ELSE LocalOffset

CallLastOf ==
    /\ \E kind \in Kinds :
        result' = [op |-> "last_of", kind |-> kind,
                   value |-> _last_of(LoadedJournal, kind, Now)]
    /\ UNCHANGED <<clock, files, recorded, faulted, saves>>

CallInQuietHours ==
    /\ result' = [op |-> "in_quiet_hours", value |-> _in_quiet_hours(Now, LoadedPrefs)]
    /\ UNCHANGED <<clock, files, recorded, faulted, saves>>

CallDaysStreak ==
    /\ \E predicate \in Predicates :
        result' = [op |-> "days_streak", predicate |-> predicate,
                   value |-> _days_streak(LoadedJournal, predicate)]
    /\ UNCHANGED <<clock, files, recorded, faulted, saves>>

\* _nudge, with the candidates list it chose from.
CallNudge ==
    /\ result' = [op |-> "nudge",
                  candidates |-> Candidates(LoadedJournal, Now, LoadedPrefs),
                  value |-> _nudge(LoadedJournal, Now, LoadedPrefs)]
    /\ UNCHANGED <<clock, files, recorded, faulted, saves>>

InitEngine(clocks, prefsSet, kinds, ages, maxLen) ==
    /\ clock \in clocks
    /\ \E prefs \in prefsSet :
       \E shape \in SeqsUpTo(kinds \X ages, maxLen) :
            LET journal == [i \in 1..Len(shape) |->
                              EntryAt(shape[i][1], clock, shape[i][2], OffsetOfPrefs(prefs))]
            IN  /\ files = StoreOf(prefs, journal)
                /\ recorded = journal
    /\ faulted = 0
    /\ result = [op |-> "init", raised |-> FALSE]
    /\ saves = NoSaves

\* -- The clock swept over a day, no journal: quiet hours and the sleep window.

\* Every quarter of an hour of a day, with the minute before, the half minute,
\* the minute and the ten minutes after it.
SweepClocks ==
    {At(StartDay, 0, 0) + q * 15 * Minute + s : q \in 0..95, s \in {-60, 0, 30, 60, 600}}

SweepPrefs ==
    {[DefaultPreferences EXCEPT
        !.timezone = tz, !.ideal_sleep_start = ideal,
        !.quiet_hours_start = qh[1], !.quiet_hours_end = qh[2],
        !.sleep_escalate_after_ideal = esc, !.sleep_escalate_ignore_quiet_hours = ign] :
      tz \in {NoTz, "Asia/Tokyo"},
      ideal \in {HHMM(22, 30), HHMM(20, 0), HHMM(23, 45)},
      qh \in {<< HHMM(22, 0), HHMM(7, 0) >>, << HHMM(8, 0), HHMM(8, 0) >>,
              << HHMM(22, 0), HHMM(6, 0) >>, << HHMM(13, 0), HHMM(14, 30) >>},
      esc \in BOOLEAN, ign \in BOOLEAN}

InitSweep == InitEngine(SweepClocks, SweepPrefs, {}, {}, 0)

NextSweep == CallInQuietHours \/ CallNudge

SpecSweep == InitSweep /\ [][NextSweep]_vars

\* -- Journals of movement and meal entries of several ages: the candidates
\* and the choice among them.

MaxNudgeJournal == 2   \* entries in the journal

\* 09:00, 40 minutes past an ideal time of 20:00, the same past the default
\* 22:30 (in quiet hours), inside the default window and quiet, deep in quiet
\* hours.
NudgeClocks ==
    {At(StartDay, 9, 0), At(StartDay, 20, 40), At(StartDay, 23, 10),
     At(StartDay, 22, 45), At(StartDay, 3, 0)}

NudgePrefs ==
    {[DefaultPreferences EXCEPT
        !.ideal_sleep_start = ideal,
        !.sleep_escalate_after_ideal = esc, !.sleep_escalate_ignore_quiet_hours = ign] :
      ideal \in {HHMM(22, 30), HHMM(20, 0)}, esc \in BOOLEAN, ign \in BOOLEAN}

\* Half an hour, 2 hours, 6 hours and 8 days before now.
NudgeAges == {30 * Minute, 2 * Hour, 6 * Hour, 8 * Day}

InitNudge == InitEngine(NudgeClocks, NudgePrefs, {"move", "meal"}, NudgeAges, MaxNudgeJournal)

NextNudge == CallNudge

SpecNudge == InitNudge /\ [][NextNudge]_vars

\* -- Journals whose entries are out of order or dated ahead: _last_of.

MaxLastOfJournal == 3   \* entries in the journal

\* An hour ahead of now, one hour and three hours before it.
LastOfAges == {- Hour, Hour, 3 * Hour}

LastOfPrefs == {DefaultPreferences, [DefaultPreferences EXCEPT !.timezone = "Asia/Tokyo"]}

InitLastOf ==
    InitEngine({At(StartDay, 9, 0), At(StartDay, 20, 40)}, LastOfPrefs,
               {"move", "meal"}, LastOfAges, MaxLastOfJournal)

NextLastOf == CallLastOf

SpecLastOf == InitLastOf /\ [][NextLastOf]_vars

\* -- Journals with entries on several days: _days_streak.

MaxStreakJournal == 3   \* entries in the journal
MaxBackDays == 3        \* how many days before today an entry may lie

StreakAges == {k * Day : k \in 0..MaxBackDays}

InitStreak ==
    InitEngine({At(StartDay, 9, 0), At(StartDay, 20, 40)}, LastOfPrefs,
               {"move", "sleep_end"}, StreakAges, MaxStreakJournal)

NextStreak == CallDaysStreak

SpecStreak == InitStreak /\ [][NextStreak]_vars

\* -- Updates of the numeric preferences, through both operations, with the
\* storage in order.  PreferencesUpdate declares the three fields as
\* Optional[int] and nothing more, so any integer passes.

IntervalUpdates ==
    {[f \in {"move_interval_min"} |-> Some(v)] : v \in {45, 0, -5}}
    \cup {[f \in {"meal_interval_hours"} |-> Some(v)] : v \in {3, 0}}
    \cup {[f \in {"sleep_escalate_max_hours"} |-> Some(v)] : v \in {5, 0, -1}}
    \cup {EmptyDict}

UpdateIntervals ==
    /\ \E upd \in IntervalUpdates :
        LET run == UpdatePreferencesRun(files, AllWritable, {}, upd)
        IN  /\ files' = run.fs
            /\ result' = run.response
    /\ UNCHANGED <<clock, recorded, faulted, saves>>

PreflightSetIntervals ==
    /\ \E upd \in IntervalUpdates :
        LET run == HealthPreflightRun(files, AllWritable, {},
                                      [NoPayload EXCEPT !.set_prefs = Some(upd)])
        IN  /\ files' = run.fs
            /\ result' = run.response
    /\ UNCHANGED <<clock, recorded, faulted, saves>>

NextPrefs == UpdateIntervals \/ PreflightSetIntervals

SpecPrefs == Init /\ [][NextPrefs]_vars

\* -- Preflight calls with the storage in order, at instants around the ideal
\* sleep time: what a call asks and answers after the calls before it.

MaxCallReports == 2   \* entries recorded in one behaviour

\* 09:00, half an hour before the default ideal time of 22:30, ten minutes
\* after it.
CallClocks == {At(StartDay, 9, 0), At(StartDay, 22, 0), At(StartDay, 22, 40)}

\* A report with no when field and no note: the entry is stamped now.
NowReport == [when |-> EmptyText, note |-> EmptyText]

CallReports ==
    {[NoPayload EXCEPT !.move = Some(NowReport)],
     [NoPayload EXCEPT !.meal = Some(NowReport)],
     [NoPayload EXCEPT !.sleep = Some([which |-> "start", when |-> EmptyText, note |-> EmptyText])],
     [NoPayload EXCEPT !.move = Some([when |-> RelText(2, "h"), note |-> EmptyText])]}

\* The update tried between calls: an earlier ideal sleep time.
CallPrefUpdates == {[f \in {"ideal_sleep_start"} |-> Some(HHMM(20, 0))]}

\* What a call carries: nothing (the decision engine alone), one report, or
\* a preference update.
CallPayloads ==
    {NoPayload}
    \cup CallReports
    \cup {[NoPayload EXCEPT !.set_prefs = Some(u)] : u \in CallPrefUpdates}

\* A call of preflight_always_health_guard.
PreflightCall ==
    /\ \E payload \in CallPayloads :
        /\ Len(recorded) + NumReports(payload) <= MaxCallReports
        /\ LET run == HealthPreflightRun(files, AllWritable, {}, payload)
           IN  /\ files' = run.fs
               /\ recorded' = recorded \o run.recorded
               /\ result' = run.response
    /\ UNCHANGED <<clock, faulted, saves>>

TickCalls ==
    /\ \E c \in CallClocks : c > clock /\ clock' = c
    /\ UNCHANGED <<files, recorded, faulted, result, saves>>

NextCalls == PreflightCall \/ TickCalls

SpecCalls == Init /\ [][NextCalls]_vars

\* -- Overlapping saves of one document.

SpecSave == Init /\ [][NextSave]_vars

----------------------------------------------------------------------------
(* Properties.                                                             *)

\* The ideal sleep instant _nudge measures from: the ideal time on the
\* calendar date of now.
IdealToday == ReplaceTime(Now, _hhmm_to_time(LoadedPrefs.ideal_sleep_start))
SecondsPastIdeal == Now.t - IdealToday.t
Quiet == _in_quiet_hours(Now, LoadedPrefs)
\* Quiet hours do not suppress the sleep candidate.
SleepNotSuppressed == ~Quiet \/ LoadedPrefs.sleep_escalate_ignore_quiet_hours

\* The sleep candidate of a candidates list, if any.
SleepOf(candidates) ==
    LET S == {i \in 1..Len(candidates) : candidates[i][2].kind = "sleep"}
    IN  IF S = {} THEN None ELSE Some(candidates[CHOOSE i \in S : TRUE])

\* The tier a sleep candidate stands for (section 4.3 of the spec).
TierOf(cand) ==
    IF IsNone(cand) THEN "Idle"
    ELSE IF cand[1][2].why = "near_ideal_sleep_time" THEN "NearIdeal"
    ELSE IF cand[1][2].severity = "gentle" THEN "OverdueGentle"
    ELSE IF cand[1][2].severity = "firm" THEN "OverdueFirm"
    ELSE "OverdueStrong"

SleepTier == TierOf(SleepOf(result.candidates))

C5_GentleAtForty ==
    (/\ result.op = "nudge"
     /\ SecondsPastIdeal = 40 * Minute
     /\ LoadedPrefs.sleep_escalate_after_ideal
     /\ SleepNotSuppressed) =>
        /\ SleepTier = "OverdueGentle"
        /\ SleepOf(result.candidates)[1][2].minutes_over = 40

\* C5, amended: exactly 40 minutes after the ideal sleep start of now's date,
\* with sleep_escalate_after_ideal true and the sleep candidate not suppressed
\* by quiet hours, the sleep candidate is at OverdueFirm (severity firm) with
\* minutes_over = 40, weighted 10040.
C5_FirmAtForty ==
    (/\ result.op = "nudge"
     /\ SecondsPastIdeal = 40 * Minute
     /\ LoadedPrefs.sleep_escalate_after_ideal
     /\ SleepNotSuppressed) =>
        SleepOf(result.candidates) =
            Some(<< 10040, [kind |-> "sleep", why |-> "past_ideal_sleep_time",
                            minutes_over |-> 40, severity |-> "firm"] >>)

\* C5, witness: _nudge has run exactly 40 minutes after the ideal start with
\* escalation on, and there is a sleep candidate.
C5_Witness ==
    /\ result.op = "nudge"
    /\ SecondsPastIdeal = 40 * Minute
    /\ LoadedPrefs.sleep_escalate_after_ideal
    /\ SleepTier = "OverdueFirm"

\* The minutes of the day a quiet window from start to end holds.
QuietWindow(start, end) ==
    IF start <= end THEN start..end ELSE (start..(24 * 60 - 1)) \cup (0..end)

\* The hour:minute of the wall clock of now, in minutes.
WallMinute == ((Now.t + Now.off) % Day) \div Minute

\* C8: inQuietHours holds exactly when the hour:minute of now lies in
\* [start, end], or for start > end at or after start or at or before end,
\* both bounds inclusive; so [08:00, 08:00] holds only 08:00, and 22:00-06:00
\* holds 23:30 and 05:30 and not 12:00.
C8_QuietHoursWindow ==
    result.op = "in_quiet_hours" =>
        LET start == _hhmm_to_time(LoadedPrefs.quiet_hours_start)
            end == _hhmm_to_time(LoadedPrefs.quiet_hours_end)
        IN  /\ result.value = (WallMinute \in QuietWindow(start, end))
            /\ (start = 8 * 60 /\ end = 8 * 60) => (result.value = (WallMinute = 8 * 60))
            /\ (start = 22 * 60 /\ end = 6 * 60) =>
                /\ WallMinute \in {23 * 60 + 30, 5 * 60 + 30} => result.value
                /\ WallMinute = 12 * 60 => ~result.value

\* C8, witness: _in_quiet_hours has answered yes at 05:30 for the window
\* 22:00-06:00.
C8_Witness ==
    /\ result.op = "in_quiet_hours"
    /\ LoadedPrefs.quiet_hours_start = HHMM(22, 0)
    /\ LoadedPrefs.quiet_hours_end = HHMM(6, 0)
    /\ WallMinute = 5 * 60 + 30
    /\ result.value

\* The instants of the entries of a kind that are not after t.
InstantsOfKind(entries, kind, t) ==
    {entries[i].ts.wall - entries[i].ts.off : i \in {j \in 1..Len(entries) :
        entries[j].kind = kind /\ entries[j].ts.wall - entries[j].ts.off <= t}}

MaxOf(S) == CHOOSE x \in S : \A y \in S : y <= x

\* C2: lastOfKind(kind, T) is the greatest timestamp among the events of the
\* kind whose timestamp is <= T, whatever the insertion order, and none
\* exactly when there is no such event.
C2_LastOfIsLatest ==
    result.op = "last_of" =>
        LET S == InstantsOfKind(LoadedJournal, result.kind, Now.t)
        IN  IF S = {} THEN IsNone(result.value)
            ELSE ~IsNone(result.value) /\ result.value[1].t = MaxOf(S)

\* C3: whenever a sleep candidate at the OverdueFirm tier is among the
\* candidates, _nudge returns the sleep nudge, however overdue movement and
\* meal are.
C3_FirmSleepOutranks ==
    (result.op = "nudge" /\ SleepTier = "OverdueFirm") => result.value.kind = "sleep"

\* C6: inside quiet hours the nudge is never of kind move or meal; it is of
\* kind sleep only if sleep_escalate_ignore_quiet_hours is true, and with the
\* flag false it is the neutral result, whatever the journal holds.
C6_QuietHoursSuppress ==
    (result.op = "nudge" /\ Quiet) =>
        /\ result.value.kind \notin {"move", "meal"}
        /\ result.value.kind = "sleep" => LoadedPrefs.sleep_escalate_ignore_quiet_hours
        /\ ~LoadedPrefs.sleep_escalate_ignore_quiet_hours =>
              result.value = [kind |-> "none", why |-> "no_nudge_needed_or_quiet_hours"]

\* C6, witness: _nudge has run in quiet hours, inside the sleep window, over a
\* journal with an overdue movement, with the flag false, and returned the
\* neutral result.
C6_Witness ==
    /\ result.op = "nudge"
    /\ Quiet
    /\ ~LoadedPrefs.sleep_escalate_ignore_quiet_hours
    /\ SecondsPastIdeal = 15 * Minute
    /\ \E i \in 1..Len(LoadedJournal) :
          LoadedJournal[i].kind = "move" /\ LoadedJournal[i].ts.wall = Wall(Now) - 8 * Day
    /\ result.value.kind = "none"

\* The score the claim gives a candidate: overdue minutes (elapsed minutes
\* since the last event the journal query returns, less the interval) for
\* movement and meal, 0 for a category never logged, the base weight plus the
\* minutes past ideal for sleep.
ClaimedScore(c) ==
    LET last == _last_of(LoadedJournal, c.kind, Now)
        interval == IF c.kind = "move" THEN LoadedPrefs.move_interval_min
                    ELSE LoadedPrefs.meal_interval_hours * 60
    IN  CASE c.why \in {"no_movement_logged", "no_meal_logged"} -> 0
          [] c.why \in {"no_recent_movement", "long_since_last_meal"} ->
                ((Now.t - last[1].t) \div 60) - interval
          [] c.why = "near_ideal_sleep_time" -> 10000
          [] c.why = "past_ideal_sleep_time" -> 10000 + (SecondsPastIdeal \div 60)

KindRank(kind) == CASE kind = "move" -> 1 [] kind = "meal" -> 2 [] kind = "sleep" -> 3

KindsOfPredicate(predicate) ==
    CASE predicate = "move" -> {"move"}
      [] predicate = "meal" -> {"meal"}
      [] predicate = "sleep" -> {"sleep_start", "sleep_end"}

\* The calendar dates (each entry's own, as its timestamp is written) that
\* hold an entry of the category.
DaysLogged(entries, predicate) ==
    {entries[i].ts.wall \div Day : i \in {j \in 1..Len(entries) :
        entries[j].kind \in KindsOfPredicate(predicate)}}

\* Today, the date in the machine's zone.
Today == (clock + LocalOffset) \div Day

\* C9: the streak of a category is the number of consecutive calendar days,
\* counted back from today, up to the first day without an event of the
\* category; 0 when today has none; 2 when the events are on D, D-1 and D-3.
C9_StreakCountsConsecutiveDays ==
    result.op = "days_streak" =>
        LET days == DaysLogged(LoadedJournal, result.predicate)
            k == result.value
        IN  /\ k \in Nat
            /\ \A j \in 0..(k - 1) : (Today - j) \in days
            /\ (Today - k) \notin days
            /\ Today \notin days => k = 0
            /\ days = {Today, Today - 1, Today - 3} => k = 2

\* C9, witness: _days_streak has counted 2 over movement entries on D, D-1
\* and D-3 only.
C9_Witness ==
    /\ result.op = "days_streak"
    /\ result.predicate = "move"
    /\ DaysLogged(LoadedJournal, "move") = {Today, Today - 1, Today - 3}
    /\ result.value = 2

RECURSIVE IsSubsequence(_, _)
\* Whether the elements of a occur in b, in the order of a.
IsSubsequence(a, b) ==
    IF a = << >> THEN TRUE
    ELSE IF b = << >> THEN FALSE
    ELSE IF Head(a) = Head(b) THEN IsSubsequence(Tail(a), Tail(b))
    ELSE IsSubsequence(a, Tail(b))

\* C1: the journal is append-only across invocations: whatever calls were
\* made, with the primary location unwritable or a journal read failing in
\* some of them, every entry an earlier report recorded is still in the
\* journal a later invocation loads, unchanged and in its original order.
C1_JournalAppendOnly == IsSubsequence(recorded, _load_journal(files, FALSE))

\* C10: a partial preference update, through either operation, sets exactly
\* the fields it supplies and leaves every other field at its prior value,
\* ignores undeclared fields without an error, and persists the result, so
\* that the next invocation loads the updated values; an update that
\* supplies no field writes nothing.
C10_PartialUpdatePersists ==
    [][(clock' = clock /\ ~result'.raised) =>
          LET changed == result'.changed_prefs
              prior == PreferencesLoad(files, FALSE)
              after == PreferencesLoad(files', FALSE)
          IN  /\ DOMAIN changed \subseteq PrefFields
              /\ \A k \in PrefFields :
                    after[k] = IF k \in DOMAIN changed THEN changed[k] ELSE prior[k]
              /\ DOMAIN changed = {} =>
                    \A d \in Dirs : files'[d][ConfigName] = files[d][ConfigName]]_vars

\* C11: after any sequence of preference updates the stored preferences have
\* move_interval_min > 0, meal_interval_hours > 0 and
\* sleep_escalate_max_hours >= 0.
C11_StoredPrefsInRange ==
    /\ LoadedPrefs.move_interval_min > 0
    /\ LoadedPrefs.meal_interval_hours > 0
    /\ LoadedPrefs.sleep_escalate_max_hours >= 0

\* C12: on any internal failure (a timestamp or preference value that does
\* not parse, a stored document that cannot be read, a write that fails) a
\* preflight call still returns a well-formed result with status, nudge and
\* asks; it never raises.
C12_PreflightAlwaysAnswers ==
    result.op = "preflight" =>
        /\ ~result.raised
        /\ {"status", "ask"} \subseteq DOMAIN result
        /\ "nudge" \in DOMAIN result.status

\* A step is a call (not the clock's) that answered, recorded nothing and
\* changed no preference.
EngineOnlyStep ==
    /\ clock' = clock
    /\ result'.op = "preflight"
    /\ ~result'.raised
    /\ result'.recorded = << >>
    /\ DOMAIN result'.changed_prefs = {}

\* C13: two decision-engine calls at the same now, with no report and no
\* preference update between them, return the same nudge and the same
\* due-times and leave the journal and the preferences unchanged: after an
\* engine-only call the files are as before it, and the call that follows at
\* once returns the nudge and the due-times the first one returned.
C13_EngineIdempotent ==
    [][EngineOnlyStep =>
          LET second == HealthPreflightRun(files', AllWritable, {}, NoPayload)
          IN  /\ files' = files
              /\ second.fs = files
              /\ ~second.response.raised
              /\ second.response.status.nudge = result'.status.nudge
              /\ second.response.status.due = result'.status.due]_vars

\* C13, witness: an engine-only call has answered over a journal that holds a
\* report, with a movement nudge and the due-times.
C13_Witness ==
    /\ result.op = "preflight"
    /\ ~result.raised
    /\ result.recorded = << >>
    /\ DOMAIN result.changed_prefs = {}
    /\ LoadedJournal # << >>
    /\ result.status.nudge.kind = "move"
    /\ result.status.due = _next_due(LoadedJournal, Now, LoadedPrefs)

\* The fields of the questions a response asks.
AskedFields(response) == {response.ask[i].field : i \in 1..Len(response.ask)}

\* The question a report of a kind answers.
FieldOfKind(kind) ==
    CASE kind = "move" -> "move"
      [] kind = "meal" -> "meal"
      [] kind \in {"sleep_start", "sleep_end"} -> "sleep"

\* C14: a question returned in ask[] is closed by the report its
\* how_to_answer hint describes: when a preflight has returned the move, meal
\* or sleep question and, at the same now, a preflight reports that category
\* (report_move, report_meal or report_sleep = "start", stamped now), with
\* positive intervals, the reporting call no longer returns that question.
C14_ReportClosesQuestion ==
    [][(/\ result.op = "preflight" /\ ~result.raised
        /\ result'.op = "preflight" /\ ~result'.raised
        /\ clock' = clock
        /\ result'.status.now = result.status.now
        /\ Len(result'.recorded) = 1
        /\ result'.recorded[1].ts = result'.status.now
        /\ result'.recorded[1].kind \in {"move", "meal", "sleep_start"}
        /\ result'.status.prefs.move_interval_min > 0
        /\ result'.status.prefs.meal_interval_hours > 0
        /\ FieldOfKind(result'.recorded[1].kind) \in AskedFields(result))
       => FieldOfKind(result'.recorded[1].kind) \notin AskedFields(result')]_vars

\* C15: under any interleaving of overlapping invocations that save the same
\* document, the document at its final path is at every moment either absent
\* or the complete content written by exactly one save call, never a partial
\* or mixed file.
C15_FinalDocumentWhole ==
    \/ saves.final = 0
    \/ \E p \in Savers : saves.content[saves.final] = Doc(p)

====
